---- MODULE Spec2Model ----
(***************************************************************************)
(* Model of pkg/endpoint/identifiers.go: the identifier derivations of an  *)
(* endpoint (CNI attachment ID, short container ID, CEP name, namespaced   *)
(* names, the aggregate identifiers map) and the locking discipline of the *)
(* accessors that read or write the endpoint under its RWMutex.            *)
(*                                                                         *)
(* Go strings are sequences of one-character strings, so concatenation,    *)
(* length and slicing are the sequence operations.                         *)
(***************************************************************************)
EXTENDS Integers, Sequences, FiniteSets, TLC

\* e         the endpoint record (its fields are named as in the Go struct)
\* alive     whether the endpoint is alive (false once it is disconnecting)
\* mutex     the endpoint's RWMutex
\* pc, op, arg, ret   per goroutine: position, accessor called, argument, result
\* written   history of the values assigned to ciliumEndpointUID (first: initial)
\* returned  index in written of the latest write whose setter has returned
\* seen      per goroutine: for a UID getter the value of returned when it was
\*           called, for a UID setter the index in written of its own write
VARIABLES e, alive, mutex, pc, op, arg, ret, written, returned, seen

vars == <<e, alive, mutex, pc, op, arg, ret, written, returned, seen>>

(***************************************************************************)
(* Bounds of the model.                                                    *)
(***************************************************************************)
MaxIdLen == 12
NumThreads == 2
MaxWrites == 2

Threads == 1..NumThreads
NoThread == 0

(***************************************************************************)
(* Strings.                                                                *)
(***************************************************************************)
Alphabet == <<"a","b","c","d","e","f","g","h","i","j","k","l","m",
              "n","o","p","q","r","s","t","u","v","w","x","y","z">>
Digits == <<"0","1","2","3","4","5","6","7","8","9">>
HexDigits == <<"0","1","2","3","4","5","6","7","8","9","a","b","c","d","e","f">>

EmptyString == <<>>

Min(a, b) == IF a < b THEN a ELSE b

\* the first n letters of the alphabet, a container ID of length n
Letters(n) == SubSeq(Alphabet, 1, Min(n, Len(Alphabet)))

RECURSIVE Itoa(_)
Itoa(n) == IF n < 10 THEN <<Digits[n + 1]>>
           ELSE Itoa(n \div 10) \o <<Digits[(n % 10) + 1]>>

RECURSIVE appendHex(_)
appendHex(n) == IF n < 16 THEN <<HexDigits[n + 1]>>
                ELSE appendHex(n \div 16) \o <<HexDigits[(n % 16) + 1]>>

(***************************************************************************)
(* netip.Addr: the zero Addr is invalid; an IPv4 address is four bytes, an *)
(* IPv6 address eight 16-bit fields (no zone, not IPv4-mapped).            *)
(***************************************************************************)
ZeroAddr == [kind |-> "invalid", f |-> <<>>]
Addr4(a, b, c, d) == [kind |-> "v4", f |-> <<a, b, c, d>>]
Addr6(h) == [kind |-> "v6", f |-> h]

IsValid(ip) == ip /= ZeroAddr

string4(ip) == Itoa(ip.f[1]) \o <<".">> \o Itoa(ip.f[2]) \o <<".">>
               \o Itoa(ip.f[3]) \o <<".">> \o Itoa(ip.f[4])

\* end of the run of zero fields that starts at field i (fields 0..7)
RECURSIVE zeroRunEnd(_, _)
zeroRunEnd(h, i) == IF i < 8 /\ h[i + 1] = 0 THEN zeroRunEnd(h, i + 1) ELSE i

\* the first longest run of at least two zero fields, <<255, 255>> if none
zeroRun(h) ==
    LET len(i) == zeroRunEnd(h, i) - i
        cands == {i \in 0..7 : len(i) >= 2}
    IN  IF cands = {} THEN <<255, 255>>
        ELSE LET best == CHOOSE i \in cands :
                            \A k \in cands : len(i) > len(k) \/ (len(i) = len(k) /\ i <= k)
             IN  <<best, zeroRunEnd(h, best)>>

RECURSIVE emit6(_, _, _, _)
emit6(h, i, zeroStart, zeroEnd) ==
    IF i >= 8 THEN <<>>
    ELSE IF i = zeroStart
         THEN <<":", ":">> \o (IF zeroEnd >= 8 THEN <<>>
                               ELSE appendHex(h[zeroEnd + 1])
                                    \o emit6(h, zeroEnd + 1, zeroStart, zeroEnd))
         ELSE (IF i > 0 THEN <<":">> ELSE <<>>) \o appendHex(h[i + 1])
              \o emit6(h, i + 1, zeroStart, zeroEnd)

string6(ip) == LET z == zeroRun(ip.f) IN emit6(ip.f, 0, z[1], z[2])

AddrString(ip) == IF ip.kind = "v4" THEN string4(ip)
                  ELSE IF ip.kind = "v6" THEN string6(ip)
                  ELSE <<"i","n","v","a","l","i","d"," ","I","P">>

(***************************************************************************)
(* The identifier prefixes of package id, the keys of id.Identifiers.      *)
(***************************************************************************)
CNIAttachmentIdPrefix == "CNIAttachmentId"
ContainerIdPrefix == "ContainerId"
DockerEndpointPrefix == "DockerEndpoint"
IPv4Prefix == "IPv4"
IPv6Prefix == "IPv6"
ContainerNamePrefix == "ContainerName"
PodNamePrefix == "PodName"
CEPNamePrefix == "CEPName"

Prefixes == {CNIAttachmentIdPrefix, ContainerIdPrefix, DockerEndpointPrefix, IPv4Prefix,
             IPv6Prefix, ContainerNamePrefix, PodNamePrefix, CEPNamePrefix}

\* make(id.Identifiers, 8)
makeIdentifiers == [k \in {} |-> EmptyString]

\* refs[k] = v
Put(refs, k, v) == [x \in (DOMAIN refs) \cup {k} |-> IF x = k THEN v ELSE refs[x]]

(***************************************************************************)
(* The derivations of identifiers.go, as functions of the endpoint record. *)
(***************************************************************************)
NilEndpoint == [isNil |-> TRUE]

caplen == 10

GetK8sPodName(ep) == ep.K8sPodName

StringID(ep) == Itoa(ep.ID)

GetK8sNamespaceAndPodName(ep) == ep.K8sNamespace \o <<"/">> \o ep.K8sPodName

\* variant: the interface name is appended whether or not legacy identifiers are disabled
GetK8sCEPNameNoLegacyCheck(ep) ==
    IF ep.K8sPodName /= EmptyString /\ ep.containerIfName /= EmptyString
    THEN ep.K8sPodName \o <<"-">> \o ep.containerIfName
    ELSE ep.K8sPodName

GetK8sCEPName(ep) ==
    IF ep.disableLegacyIdentifiers /\ ep.K8sPodName /= EmptyString
       /\ ep.containerIfName /= EmptyString
    THEN ep.K8sPodName \o <<"-">> \o ep.containerIfName
    ELSE ep.K8sPodName

\* variant: no namespaced name for an endpoint without a CEP name
GetK8sNamespaceAndCEPNameOrEmpty(ep) ==
    IF GetK8sCEPName(ep) = EmptyString THEN EmptyString
    ELSE ep.K8sNamespace \o <<"/">> \o GetK8sCEPName(ep)

GetK8sNamespaceAndCEPName(ep) == ep.K8sNamespace \o <<"/">> \o GetK8sCEPName(ep)

HumanString(ep) ==
    LET cep == GetK8sNamespaceAndCEPName(ep)
    IN  IF cep /= EmptyString THEN cep ELSE StringID(ep)

\* variant: the interface name is appended only to a non-empty container ID
getCNIAttachmentIDLockedNeedsContainerID(ep) ==
    IF ep.containerIfName /= EmptyString /\ ep.containerID /= EmptyString
    THEN ep.containerID \o <<":">> \o ep.containerIfName
    ELSE ep.containerID

getCNIAttachmentIDLocked(ep) ==
    IF ep.containerIfName /= EmptyString
    THEN ep.containerID \o <<":">> \o ep.containerIfName
    ELSE ep.containerID

\* variant: the slice is one character short
getShortContainerIDLockedOffByOne(ep) ==
    IF ep = NilEndpoint THEN EmptyString
    ELSE LET cid == ep.containerID
         IN  IF Len(cid) <= caplen THEN cid ELSE SubSeq(cid, 1, caplen - 1)

getShortContainerIDLocked(ep) ==
    IF ep = NilEndpoint THEN EmptyString
    ELSE LET cid == ep.containerID
         IN  IF Len(cid) <= caplen THEN cid ELSE SubSeq(cid, 1, caplen)

GetDockerEndpointID(ep) == ep.dockerEndpointID

\* variant: the IPv4 entry is written without the validity test
IdentifiersLockedAlwaysIPv4(ep) ==
    LET refs0 == makeIdentifiers
        cniID == getCNIAttachmentIDLocked(ep)
        refs1 == IF cniID /= EmptyString THEN Put(refs0, CNIAttachmentIdPrefix, cniID)
                 ELSE refs0
        refs2 == IF ~ep.disableLegacyIdentifiers /\ ep.containerID /= EmptyString
                 THEN Put(refs1, ContainerIdPrefix, ep.containerID) ELSE refs1
        refs3 == IF ep.dockerEndpointID /= EmptyString
                 THEN Put(refs2, DockerEndpointPrefix, ep.dockerEndpointID) ELSE refs2
        refs4 == Put(refs3, IPv4Prefix, AddrString(ep.IPv4))
        refs5 == IF IsValid(ep.IPv6) THEN Put(refs4, IPv6Prefix, AddrString(ep.IPv6))
                 ELSE refs4
        refs6 == IF ~ep.disableLegacyIdentifiers /\ ep.containerName /= EmptyString
                 THEN Put(refs5, ContainerNamePrefix, ep.containerName) ELSE refs5
        podName == GetK8sNamespaceAndPodName(ep)
        refs7 == IF ~ep.disableLegacyIdentifiers /\ podName /= EmptyString
                 THEN Put(refs6, PodNamePrefix, podName) ELSE refs6
        cepName == GetK8sNamespaceAndCEPName(ep)
        refs8 == IF cepName /= EmptyString THEN Put(refs7, CEPNamePrefix, cepName)
                 ELSE refs7
    IN  refs8

\* variant: the pod name entry is written without the legacy test
IdentifiersLockedUngatedPodName(ep) ==
    LET refs0 == makeIdentifiers
        cniID == getCNIAttachmentIDLocked(ep)
        refs1 == IF cniID /= EmptyString THEN Put(refs0, CNIAttachmentIdPrefix, cniID)
                 ELSE refs0
        refs2 == IF ~ep.disableLegacyIdentifiers /\ ep.containerID /= EmptyString
                 THEN Put(refs1, ContainerIdPrefix, ep.containerID) ELSE refs1
        refs3 == IF ep.dockerEndpointID /= EmptyString
                 THEN Put(refs2, DockerEndpointPrefix, ep.dockerEndpointID) ELSE refs2
        refs4 == IF IsValid(ep.IPv4) THEN Put(refs3, IPv4Prefix, AddrString(ep.IPv4))
                 ELSE refs3
        refs5 == IF IsValid(ep.IPv6) THEN Put(refs4, IPv6Prefix, AddrString(ep.IPv6))
                 ELSE refs4
        refs6 == IF ~ep.disableLegacyIdentifiers /\ ep.containerName /= EmptyString
                 THEN Put(refs5, ContainerNamePrefix, ep.containerName) ELSE refs5
        podName == GetK8sNamespaceAndPodName(ep)
        refs7 == IF podName /= EmptyString
                 THEN Put(refs6, PodNamePrefix, podName) ELSE refs6
        cepName == GetK8sNamespaceAndCEPName(ep)
        refs8 == IF cepName /= EmptyString THEN Put(refs7, CEPNamePrefix, cepName)
                 ELSE refs7
    IN  refs8

IdentifiersLocked(ep) ==
    LET refs0 == makeIdentifiers
        cniID == getCNIAttachmentIDLocked(ep)
        refs1 == IF cniID /= EmptyString THEN Put(refs0, CNIAttachmentIdPrefix, cniID)
                 ELSE refs0
        refs2 == IF ~ep.disableLegacyIdentifiers /\ ep.containerID /= EmptyString
                 THEN Put(refs1, ContainerIdPrefix, ep.containerID) ELSE refs1
        refs3 == IF ep.dockerEndpointID /= EmptyString
                 THEN Put(refs2, DockerEndpointPrefix, ep.dockerEndpointID) ELSE refs2
        refs4 == IF IsValid(ep.IPv4) THEN Put(refs3, IPv4Prefix, AddrString(ep.IPv4))
                 ELSE refs3
        refs5 == IF IsValid(ep.IPv6) THEN Put(refs4, IPv6Prefix, AddrString(ep.IPv6))
                 ELSE refs4
        refs6 == IF ~ep.disableLegacyIdentifiers /\ ep.containerName /= EmptyString
                 THEN Put(refs5, ContainerNamePrefix, ep.containerName) ELSE refs5
        podName == GetK8sNamespaceAndPodName(ep)
        refs7 == IF ~ep.disableLegacyIdentifiers /\ podName /= EmptyString
                 THEN Put(refs6, PodNamePrefix, podName) ELSE refs6
        cepName == GetK8sNamespaceAndCEPName(ep)
        refs8 == IF cepName /= EmptyString THEN Put(refs7, CEPNamePrefix, cepName)
                 ELSE refs7
    IN  refs8

(***************************************************************************)
(* Endpoints.                                                              *)
(***************************************************************************)
Eth0 == <<"e","t","h","0">>
Ns1 == <<"n","s","1">>
Pod1 == <<"p","o","d","1">>
Web == <<"w","e","b">>
Dock == <<"d","7">>
ExampleContainerID == Letters(16)
V4 == Addr4(10, 0, 200, 1)
V6 == Addr6(<<61453, 0, 0, 0, 2576, 0, 0, 37269>>)

\* a types.UID is a Go string: two words, data and length, which name the same
\* string unless a read raced with an assignment
Str(u) == [data |-> u, len |-> u]

\* the UIDs: the initial one, and the one passed to the k-th call of the setter
\* (pairwise distinct, so that a value read identifies the assignment it is from)
UID(k) == <<"uid", k>>

ContainerIDs == {Letters(n) : n \in 0..MaxIdLen} \cup {ExampleContainerID}

\* every combination of the identifier fields
Endpoints ==
    [containerID : ContainerIDs, containerIfName : {EmptyString, Eth0},
     containerName : {EmptyString, Web}, dockerEndpointID : {EmptyString, Dock},
     K8sNamespace : {EmptyString, Ns1}, K8sPodName : {EmptyString, Pod1},
     IPv4 : {ZeroAddr, V4}, IPv6 : {ZeroAddr, V6},
     disableLegacyIdentifiers : BOOLEAN, ID : {4711}, ciliumEndpointUID : {Str(UID(0))}]

\* the endpoint of the concurrent specification: legacy identifiers disabled,
\* every legacy field populated
SharedEndpoints ==
    {ep \in Endpoints : /\ ep.containerID = ExampleContainerID
                        /\ ep.disableLegacyIdentifiers
                        /\ ep.containerIfName = Eth0 /\ ep.containerName = Web
                        /\ ep.dockerEndpointID = EmptyString
                        /\ ep.K8sNamespace = Ns1 /\ ep.K8sPodName = Pod1
                        /\ ep.IPv4 = V4 /\ ep.IPv6 = ZeroAddr}

(***************************************************************************)
(* Results of a call.                                                      *)
(***************************************************************************)
NoArg == "-"
NoRet == [kind |-> "none", val |-> EmptyString, err |-> "nil"]
StringRet(s) == [kind |-> "string", val |-> s, err |-> "nil"]
UIDRet(u) == [kind |-> "uid", val |-> u, err |-> "nil"]
MapRet(m) == [kind |-> "map", val |-> m, err |-> "nil"]
ErrNotAlive == [kind |-> "nilmap", val |-> EmptyString, err |-> "ErrNotAlive"]

(***************************************************************************)
(* The endpoint lock: a sync.RWMutex.  A writer first becomes the pending  *)
(* writer, which keeps new readers out, and holds the lock once the active *)
(* readers have left.                                                      *)
(***************************************************************************)
FreeMutex == [readerCount |-> 0, writer |-> NoThread, locked |-> FALSE]

unconditionalRLock ==
    /\ mutex.writer = NoThread
    /\ mutex' = [mutex EXCEPT !.readerCount = @ + 1]

runlock ==
    /\ mutex.readerCount > 0
    /\ mutex' = [mutex EXCEPT !.readerCount = @ - 1]

\* rlockAlive on an endpoint that is alive: the shared lock is taken
rlockAliveOk ==
    /\ alive
    /\ unconditionalRLock

\* rlockAlive on an endpoint that is not alive: no lock is held afterwards
rlockAliveErr ==
    /\ ~alive
    /\ mutex.writer = NoThread
    /\ UNCHANGED mutex

\* unconditionalLock, first half: become the pending writer
lockPending(t) ==
    /\ mutex.writer = NoThread
    /\ mutex' = [mutex EXCEPT !.writer = t]

\* unconditionalLock, second half: the readers have drained
lockAcquire(t) ==
    /\ mutex.writer = t /\ ~mutex.locked
    /\ mutex.readerCount = 0
    /\ mutex' = [mutex EXCEPT !.locked = TRUE]

unlock(t) ==
    /\ mutex.writer = t /\ mutex.locked
    /\ mutex' = FreeMutex

\* the endpoint stops being alive; not-alive is terminal
Disconnect ==
    /\ alive
    /\ alive' = FALSE
    /\ UNCHANGED <<e, mutex, pc, op, arg, ret, written, returned, seen>>

(***************************************************************************)
(* Steps of a goroutine.                                                   *)
(***************************************************************************)
Goto(t, l) == pc' = [pc EXCEPT ![t] = l]

At(t, o, l) == op[t] = o /\ pc[t] = l

\* goroutine t calls accessor o with argument a and continues at l
Begin(t, o, a, l) ==
    /\ pc[t] = "idle"
    /\ op' = [op EXCEPT ![t] = o]
    /\ arg' = [arg EXCEPT ![t] = a]
    /\ ret' = [ret EXCEPT ![t] = NoRet]
    /\ seen' = [seen EXCEPT ![t] = IF o = "GetCiliumEndpointUID" THEN returned ELSE 0]
    /\ Goto(t, l)
    /\ UNCHANGED <<e, alive, mutex, written, returned>>

\* goroutine t calls the lock-free derivation o, which returns s at once
Derive(t, o, a, s) ==
    /\ pc[t] = "idle"
    /\ op' = [op EXCEPT ![t] = o]
    /\ arg' = [arg EXCEPT ![t] = a]
    /\ ret' = [ret EXCEPT ![t] = StringRet(s)]
    /\ seen' = [seen EXCEPT ![t] = 0]
    /\ UNCHANGED <<e, alive, mutex, pc, written, returned>>

\* a step that only takes or releases the lock
LockStep(t, l) ==
    /\ Goto(t, l)
    /\ UNCHANGED <<e, alive, op, arg, ret, written, returned, seen>>

\* the return to the caller, which takes the result
Return(t) ==
    /\ Goto(t, "idle")
    /\ op' = [op EXCEPT ![t] = "none"]
    /\ arg' = [arg EXCEPT ![t] = NoArg]
    /\ ret' = [ret EXCEPT ![t] = NoRet]
    /\ seen' = [seen EXCEPT ![t] = 0]
    /\ UNCHANGED <<e, alive, written>>

\* a step that only evaluates the result r under the lock
Result(t, r, l) ==
    /\ ret' = [ret EXCEPT ![t] = r]
    /\ Goto(t, l)
    /\ UNCHANGED <<e, alive, mutex, op, arg, written, returned, seen>>

(***************************************************************************)
(* The lock-free accessors: one step each.                                 *)
(***************************************************************************)
CallGetK8sPodName(t) == Derive(t, "GetK8sPodName", NoArg, GetK8sPodName(e))

CallHumanString(t) == Derive(t, "HumanString", NoArg, HumanString(e))

CallGetK8sNamespaceAndPodName(t) ==
    Derive(t, "GetK8sNamespaceAndPodName", NoArg, GetK8sNamespaceAndPodName(e))

CallGetK8sCEPName(t) == Derive(t, "GetK8sCEPName", NoArg, GetK8sCEPName(e))

CallGetK8sNamespaceAndCEPName(t) ==
    Derive(t, "GetK8sNamespaceAndCEPName", NoArg, GetK8sNamespaceAndCEPName(e))

CallGetDockerEndpointID(t) == Derive(t, "GetDockerEndpointID", NoArg, GetDockerEndpointID(e))

\* getShortContainerIDLocked on the endpoint or on a nil *Endpoint
CallGetShortContainerIDLocked(t) ==
    \E recv \in {"e", "nil"} :
        Derive(t, "getShortContainerIDLocked", recv,
               getShortContainerIDLocked(IF recv = "nil" THEN NilEndpoint ELSE e))

(***************************************************************************)
(* The accessors that read under the shared lock.                          *)
(***************************************************************************)
GetContainerName(t) ==
    \/ Begin(t, "GetContainerName", NoArg, "rlock")
    \/ At(t, "GetContainerName", "rlock") /\ unconditionalRLock /\ LockStep(t, "read")
    \/ At(t, "GetContainerName", "read") /\ Result(t, StringRet(e.containerName), "runlock")
    \/ At(t, "GetContainerName", "runlock") /\ runlock /\ Return(t) /\ UNCHANGED returned

GetCNIAttachmentID(t) ==
    \/ Begin(t, "GetCNIAttachmentID", NoArg, "rlock")
    \/ At(t, "GetCNIAttachmentID", "rlock") /\ unconditionalRLock /\ LockStep(t, "read")
    \/ At(t, "GetCNIAttachmentID", "read")
          /\ Result(t, StringRet(getCNIAttachmentIDLocked(e)), "runlock")
    \/ At(t, "GetCNIAttachmentID", "runlock") /\ runlock /\ Return(t) /\ UNCHANGED returned

GetContainerID(t) ==
    \/ Begin(t, "GetContainerID", NoArg, "rlock")
    \/ At(t, "GetContainerID", "rlock") /\ unconditionalRLock /\ LockStep(t, "read")
    \/ At(t, "GetContainerID", "read") /\ Result(t, StringRet(e.containerID), "runlock")
    \/ At(t, "GetContainerID", "runlock") /\ runlock /\ Return(t) /\ UNCHANGED returned

GetShortContainerID(t) ==
    \/ Begin(t, "GetShortContainerID", NoArg, "rlock")
    \/ At(t, "GetShortContainerID", "rlock") /\ unconditionalRLock /\ LockStep(t, "read")
    \/ At(t, "GetShortContainerID", "read")
          /\ Result(t, StringRet(getShortContainerIDLocked(e)), "runlock")
    \/ At(t, "GetShortContainerID", "runlock") /\ runlock /\ Return(t) /\ UNCHANGED returned

(***************************************************************************)
(* Identifiers and the callers of IdentifiersLocked.                       *)
(***************************************************************************)
\* variant: IdentifiersLocked takes the shared lock for the duration of the call
IdentifiersLockedCallRelock(t, l) ==
    /\ mutex.writer = NoThread
    /\ Result(t, MapRet(IdentifiersLocked(e)), l)

\* the call e.IdentifiersLocked() by a goroutine that holds the lock
IdentifiersLockedCall(t, l) == Result(t, MapRet(IdentifiersLocked(e)), l)

\* variant: the shared lock is taken with unconditionalRLock
IdentifiersAcquireUnconditional(t) == unconditionalRLock /\ LockStep(t, "locked")

\* if err := e.rlockAlive(); err != nil { return nil, err }
IdentifiersAcquire(t) ==
    \/ rlockAliveOk /\ LockStep(t, "locked")
    \/ /\ rlockAliveErr
       /\ ret' = [ret EXCEPT ![t] = ErrNotAlive]
       /\ Goto(t, "return")
       /\ UNCHANGED <<e, alive, op, arg, written, returned, seen>>

Identifiers(t) ==
    \/ Begin(t, "Identifiers", NoArg, "rlockAlive")
    \/ At(t, "Identifiers", "rlockAlive") /\ IdentifiersAcquire(t)
    \/ At(t, "Identifiers", "return") /\ Return(t) /\ UNCHANGED <<mutex, returned>>
    \/ At(t, "Identifiers", "locked") /\ IdentifiersLockedCall(t, "runlock")
    \/ At(t, "Identifiers", "runlock") /\ runlock /\ Return(t) /\ UNCHANGED returned

\* a caller that takes the endpoint lock itself, shared or exclusive, calls
\* IdentifiersLocked and releases the lock
LockedCaller(t) ==
    \/ Begin(t, "LockedCaller", "shared", "rlock")
    \/ Begin(t, "LockedCaller", "exclusive", "lock")
    \/ At(t, "LockedCaller", "rlock") /\ unconditionalRLock /\ LockStep(t, "locked")
    \/ At(t, "LockedCaller", "lock") /\ lockPending(t) /\ LockStep(t, "lockWait")
    \/ At(t, "LockedCaller", "lockWait") /\ lockAcquire(t) /\ LockStep(t, "locked")
    \/ At(t, "LockedCaller", "locked")
          /\ IdentifiersLockedCall(t, IF arg[t] = "shared" THEN "runlock" ELSE "unlock")
    \/ At(t, "LockedCaller", "runlock") /\ runlock /\ Return(t) /\ UNCHANGED returned
    \/ At(t, "LockedCaller", "unlock") /\ unlock(t) /\ Return(t) /\ UNCHANGED returned

(***************************************************************************)
(* The CiliumEndpoint UID.  A Go string is two words, data and length; an  *)
(* assignment stores them one after the other, in either order.            *)
(***************************************************************************)
\* variant: the field is read without the lock
GetCiliumEndpointUIDNoLock(t) ==
    \/ Begin(t, "GetCiliumEndpointUID", NoArg, "read")
    \/ At(t, "GetCiliumEndpointUID", "read")
          /\ Result(t, UIDRet(e.ciliumEndpointUID), "return")
    \/ At(t, "GetCiliumEndpointUID", "return") /\ Return(t) /\ UNCHANGED <<mutex, returned>>

GetCiliumEndpointUID(t) ==
    \/ Begin(t, "GetCiliumEndpointUID", NoArg, "rlock")
    \/ At(t, "GetCiliumEndpointUID", "rlock") /\ unconditionalRLock /\ LockStep(t, "read")
    \/ At(t, "GetCiliumEndpointUID", "read")
          /\ Result(t, UIDRet(e.ciliumEndpointUID), "runlock")
    \/ At(t, "GetCiliumEndpointUID", "runlock") /\ runlock /\ Return(t) /\ UNCHANGED returned

\* the setter's calls in progress that have not yet assigned
SettersBeforeWrite ==
    {u \in Threads : op[u] = "SetCiliumEndpointUID" /\ pc[u] \in {"lock", "lockWait", "write", "write2"}}

\* variant: the setter takes the shared lock
SetAcquireShared(t) == pc[t] = "lock" /\ unconditionalRLock /\ LockStep(t, "write")

\* e.unconditionalLock()
SetAcquire(t) ==
    \/ pc[t] = "lock" /\ lockPending(t) /\ LockStep(t, "lockWait")
    \/ pc[t] = "lockWait" /\ lockAcquire(t) /\ LockStep(t, "write")

\* e.ciliumEndpointUID = uid
SetAssign(t) ==
    \/ /\ pc[t] = "write"
       /\ \E w \in {"data", "len"} :
             e' = [e EXCEPT !.ciliumEndpointUID = [@ EXCEPT ![w] = arg[t]]]
       /\ Goto(t, "write2")
       /\ UNCHANGED <<alive, mutex, op, arg, ret, written, returned, seen>>
    \/ /\ pc[t] = "write2"
       /\ e' = [e EXCEPT !.ciliumEndpointUID = Str(arg[t])]
       /\ written' = Append(written, arg[t])
       /\ seen' = [seen EXCEPT ![t] = Len(written) + 1]
       /\ Goto(t, "unlock")
       /\ UNCHANGED <<alive, mutex, op, arg, ret, returned>>

\* e.unlock() and the return
SetRelease(t) ==
    /\ pc[t] = "unlock"
    /\ unlock(t)
    /\ returned' = IF seen[t] > returned THEN seen[t] ELSE returned
    /\ Return(t)

SetCiliumEndpointUID(t) ==
    \/ /\ Len(written) - 1 + Cardinality(SettersBeforeWrite) < MaxWrites
       /\ Begin(t, "SetCiliumEndpointUID",
                UID(Len(written) + Cardinality(SettersBeforeWrite)), "lock")
    \/ op[t] = "SetCiliumEndpointUID" /\ SetAcquire(t)
    \/ op[t] = "SetCiliumEndpointUID" /\ SetAssign(t)
    \/ op[t] = "SetCiliumEndpointUID" /\ SetRelease(t)

(***************************************************************************)
(* Specifications.                                                         *)
(***************************************************************************)
InitRest ==
    /\ alive = TRUE
    /\ mutex = FreeMutex
    /\ pc = [t \in Threads |-> "idle"]
    /\ op = [t \in Threads |-> "none"]
    /\ arg = [t \in Threads |-> NoArg]
    /\ ret = [t \in Threads |-> NoRet]
    /\ written = <<UID(0)>>
    /\ returned = 1
    /\ seen = [t \in Threads |-> 0]

\* goroutines calling the locking accessors concurrently on one endpoint
Init ==
    /\ e \in SharedEndpoints
    /\ InitRest

Next ==
    \/ Disconnect
    \/ \E t \in Threads : GetContainerName(t)
    \/ \E t \in Threads : GetCNIAttachmentID(t)
    \/ \E t \in Threads : GetContainerID(t)
    \/ \E t \in Threads : GetShortContainerID(t)
    \/ \E t \in Threads : Identifiers(t)
    \/ \E t \in Threads : LockedCaller(t)
    \/ \E t \in Threads : GetCiliumEndpointUID(t)
    \/ \E t \in Threads : SetCiliumEndpointUID(t)

Spec == Init /\ [][Next]_vars

\* one goroutine calling every accessor of the file, on every endpoint
InitResolver ==
    /\ e \in Endpoints
    /\ InitRest

NextResolver ==
    \/ Disconnect
    \/ CallGetK8sPodName(1)
    \/ CallHumanString(1)
    \/ CallGetK8sNamespaceAndPodName(1)
    \/ CallGetK8sCEPName(1)
    \/ CallGetK8sNamespaceAndCEPName(1)
    \/ CallGetDockerEndpointID(1)
    \/ CallGetShortContainerIDLocked(1)
    \/ GetContainerName(1)
    \/ GetCNIAttachmentID(1)
    \/ GetContainerID(1)
    \/ GetShortContainerID(1)
    \/ Identifiers(1)
    \/ LockedCaller(1)

SpecResolver == InitResolver /\ [][NextResolver]_vars

(***************************************************************************)
(* Properties.                                                             *)
(***************************************************************************)
\* any step of goroutine t in a locking accessor
AccessorStep(t) ==
    \/ GetContainerName(t) \/ GetCNIAttachmentID(t) \/ GetContainerID(t)
    \/ GetShortContainerID(t) \/ Identifiers(t) \/ LockedCaller(t)
    \/ GetCiliumEndpointUID(t) \/ SetCiliumEndpointUID(t)

SharedMode(t) == op[t] = "Identifiers" \/ (op[t] = "LockedCaller" /\ arg[t] = "shared")

InSharedSection(t) ==
    \/ pc[t] \in {"read", "runlock"}
    \/ pc[t] = "locked" /\ SharedMode(t)

InExclusiveSection(t) ==
    \/ pc[t] \in {"write", "write2", "unlock"}
    \/ pc[t] = "locked" /\ ~SharedMode(t)

\* goroutine t is in accessor o (or, lock-free, has called it) with its result determined
Returned(t, o) == op[t] = o /\ ret[t].kind /= "none"

\* what the specification says each key of the map holds
ExpectedCEPName(ep) ==
    IF ep.disableLegacyIdentifiers /\ ep.K8sPodName /= <<>> /\ ep.containerIfName /= <<>>
    THEN ep.K8sPodName \o <<"-">> \o ep.containerIfName
    ELSE ep.K8sPodName

ExpectedCNIAttachmentID(ep) ==
    IF ep.containerIfName = <<>> THEN ep.containerID
    ELSE ep.containerID \o <<":">> \o ep.containerIfName

ExpectedValue(ep, k) ==
    CASE k = "CNIAttachmentId" -> ExpectedCNIAttachmentID(ep)
      [] k = "ContainerId" -> ep.containerID
      [] k = "DockerEndpoint" -> ep.dockerEndpointID
      [] k = "IPv4" -> IF ep.IPv4 = V4 THEN <<"1","0",".","0",".","2","0","0",".","1">>
                       ELSE <<>>
      [] k = "IPv6" -> IF ep.IPv6 = V6
                       THEN <<"f","0","0","d",":",":","a","1","0",":","0",":","0",":",
                              "9","1","9","5">>
                       ELSE <<>>
      [] k = "ContainerName" -> ep.containerName
      [] k = "PodName" -> ep.K8sNamespace \o <<"/">> \o ep.K8sPodName
      [] k = "CEPName" -> ep.K8sNamespace \o <<"/">> \o ExpectedCEPName(ep)

ExpectedPresent(ep, k) ==
    CASE k = "CNIAttachmentId" -> ExpectedValue(ep, k) /= <<>>
      [] k = "ContainerId" -> ~ep.disableLegacyIdentifiers /\ ep.containerID /= <<>>
      [] k = "DockerEndpoint" -> ep.dockerEndpointID /= <<>>
      [] k = "IPv4" -> ep.IPv4.kind /= "invalid"
      [] k = "IPv6" -> ep.IPv6.kind /= "invalid"
      [] k = "ContainerName" -> ~ep.disableLegacyIdentifiers /\ ep.containerName /= <<>>
      [] k = "PodName" -> ~ep.disableLegacyIdentifiers /\ ExpectedValue(ep, k) /= <<>>
      [] k = "CEPName" -> ExpectedValue(ep, k) /= <<>>

AllKeys == {"CNIAttachmentId", "ContainerId", "DockerEndpoint", "IPv4", "IPv6",
            "ContainerName", "PodName", "CEPName"}

\* the endpoint of the specification's example
IsExample(ep) ==
    /\ ep.containerID = <<"a","b","c","d","e","f","g","h","i","j","k","l","m","n","o","p">>
    /\ ep.containerIfName = <<"e","t","h","0">>
    /\ ep.K8sNamespace = <<"n","s","1">> /\ ep.K8sPodName = <<"p","o","d","1">>
    /\ ep.disableLegacyIdentifiers
    /\ ep.containerName = <<>> /\ ep.dockerEndpointID = <<>>
    /\ ep.IPv4 = ZeroAddr /\ ep.IPv6 = ZeroAddr

ExampleMap ==
    [k \in {"CNIAttachmentId", "CEPName"} |->
        IF k = "CNIAttachmentId"
        THEN <<"a","b","c","d","e","f","g","h","i","j","k","l","m","n","o","p",":",
               "e","t","h","0">>
        ELSE <<"n","s","1","/","p","o","d","1","-","e","t","h","0">>]

\* C1: the map returned by IdentifiersLocked has a key exactly when the key's
\* inclusion rule holds of the endpoint's fields, no other key, and under each
\* key the derived value; the example endpoint gives exactly the example map.
C1_MapKeysAndValues ==
    \A t \in Threads :
        ret[t].kind = "map" =>
            LET m == ret[t].val
            IN  /\ DOMAIN m \subseteq AllKeys
                /\ \A k \in AllKeys : (k \in DOMAIN m) <=> ExpectedPresent(e, k)
                /\ \A k \in DOMAIN m : m[k] = ExpectedValue(e, k)
                /\ IsExample(e) => m = ExampleMap

C1_Witness ==
    /\ IsExample(e)
    /\ Returned(1, "LockedCaller")
    /\ ret[1].kind = "map" /\ ret[1].val = ExampleMap

\* C2: with legacy identifiers disabled, no map returned by IdentifiersLocked or
\* by Identifiers has a ContainerId, ContainerName or PodName key.
C2_NoLegacyKeys ==
    \A t \in Threads :
        (ret[t].kind = "map" /\ e.disableLegacyIdentifiers) =>
            (DOMAIN ret[t].val) \cap {"ContainerId", "ContainerName", "PodName"} = {}

C2_Witness ==
    /\ e.disableLegacyIdentifiers
    /\ e.containerID /= <<>> /\ e.containerName /= <<>>
    /\ e.K8sNamespace /= <<>> /\ e.K8sPodName /= <<>>
    /\ Returned(1, "Identifiers") /\ ret[1].kind = "map"

\* C6: GetK8sCEPName is pod name, "-", interface name exactly when legacy
\* identifiers are disabled and both names are non-empty, and the pod name
\* otherwise; GetK8sNamespaceAndCEPName is namespace, "/", that name.
C6_CEPName ==
    \A t \in Threads :
        LET cond == e.disableLegacyIdentifiers /\ e.K8sPodName /= <<>>
                    /\ e.containerIfName /= <<>>
            joined == e.K8sPodName \o <<"-">> \o e.containerIfName
        IN  /\ Returned(t, "GetK8sCEPName") =>
                /\ (ret[t].val = joined) <=> cond
                /\ ~cond => ret[t].val = e.K8sPodName
            /\ Returned(t, "GetK8sNamespaceAndCEPName") =>
                ret[t].val = e.K8sNamespace \o <<"/">>
                             \o (IF cond THEN joined ELSE e.K8sPodName)

C6_Witness ==
    /\ Returned(1, "GetK8sCEPName")
    /\ e.disableLegacyIdentifiers
    /\ ret[1].val = <<"p","o","d","1","-","e","t","h","0">>

\* C7: the short container ID is the container ID itself when that has at most
\* 10 characters, its first 10 characters when it is longer, and the empty
\* string for a nil endpoint.
C7_ShortContainerID ==
    \A t \in Threads :
        /\ (Returned(t, "GetShortContainerID")
            \/ (Returned(t, "getShortContainerIDLocked") /\ arg[t] = "e")) =>
               IF Len(e.containerID) <= 10 THEN ret[t].val = e.containerID
               ELSE /\ Len(ret[t].val) = 10
                    /\ \A i \in 1..10 : ret[t].val[i] = e.containerID[i]
        /\ (Returned(t, "getShortContainerIDLocked") /\ arg[t] = "nil") =>
               ret[t].val = <<>>

C7_Witness ==
    /\ Returned(1, "GetShortContainerID")
    /\ Len(e.containerID) = 11
    /\ ret[1].val = <<"a","b","c","d","e","f","g","h","i","j">>

\* C8: the CNI attachment ID is the container ID when the interface name is
\* empty and container ID, ":", interface name otherwise, whatever the value of
\* disableLegacyIdentifiers.
C8_CNIAttachmentID ==
    \A t \in Threads :
        Returned(t, "GetCNIAttachmentID") =>
            ret[t].val = (IF e.containerIfName = <<>> THEN e.containerID
                          ELSE e.containerID \o <<":">> \o e.containerIfName)

C8_Witness ==
    /\ Returned(1, "GetCNIAttachmentID")
    /\ e.containerID = <<>>
    /\ ret[1].val = <<":","e","t","h","0">>

\* C10: the namespaced names are never empty: every map has the CEPName key, and
\* the PodName key exactly when legacy identifiers are not disabled; HumanString
\* returns the namespaced CEP name, never the StringID fallback.
C10_NamespacedNamesNeverEmpty ==
    \A t \in Threads :
        /\ ret[t].kind = "map" =>
              /\ "CEPName" \in DOMAIN ret[t].val
              /\ ("PodName" \in DOMAIN ret[t].val) <=> ~e.disableLegacyIdentifiers
        /\ Returned(t, "GetK8sNamespaceAndCEPName") => ret[t].val /= <<>>
        /\ Returned(t, "GetK8sNamespaceAndPodName") => ret[t].val /= <<>>
        /\ Returned(t, "HumanString") =>
              /\ ret[t].val = e.K8sNamespace \o <<"/">> \o ExpectedCEPName(e)
              /\ ret[t].val /= <<"4","7","1","1">>

C10_Witness ==
    /\ e.K8sNamespace = <<>> /\ e.K8sPodName = <<>>
    /\ ~e.disableLegacyIdentifiers
    /\ ret[1].kind = "map"
    /\ "CEPName" \in DOMAIN ret[1].val /\ ret[1].val["CEPName"] = <<"/">>
    /\ "PodName" \in DOMAIN ret[1].val /\ ret[1].val["PodName"] = <<"/">>

C3_State ==
    /\ \A t \in Threads :
          /\ ret[t].err /= "nil" =>
                op[t] = "Identifiers" /\ pc[t] = "return" /\ ret[t].kind = "nilmap"
          /\ (Returned(t, "Identifiers") /\ ret[t].err = "nil") =>
                ret[t].kind = "map" /\ ret[t].val = IdentifiersLocked(e)
          /\ (pc[t] = "rlockAlive" /\ mutex.writer = NoThread) => ENABLED AccessorStep(t)
    /\ mutex.readerCount = Cardinality({t \in Threads : InSharedSection(t)})

C3_Step ==
    \A t \in Threads :
        (pc[t] = "rlockAlive" /\ pc'[t] /= "rlockAlive") =>
            IF alive
            THEN /\ pc'[t] = "locked" /\ ret'[t].err = "nil"
                 /\ mutex'.readerCount = mutex.readerCount + 1
            ELSE /\ pc'[t] = "return" /\ ret'[t].err = "ErrNotAlive"
                 /\ ret'[t].kind = "nilmap"
                 /\ mutex' = mutex

\* C3: Identifiers returns ErrNotAlive, and no map, exactly when the endpoint is
\* not alive at the liveness-gated acquisition, which waits only for the lock
\* and leaves no lock held; when the endpoint is alive it returns the map of
\* IdentifiersLocked, no error, and has released the shared lock on return. No
\* other accessor returns an error.
C3_IdentifiersNotAlive == []C3_State /\ [][C3_Step]_vars

C3_Witness ==
    \E t \in Threads :
        /\ Returned(t, "Identifiers") /\ ret[t].err = "ErrNotAlive"
        /\ ~alive
        /\ mutex.readerCount > 0

C4_State ==
    \A t \in Threads :
        /\ (op[t] = "SetCiliumEndpointUID" /\ pc[t] \in {"write", "write2", "unlock"}) =>
              /\ mutex.writer = t /\ mutex.locked /\ mutex.readerCount = 0
              /\ \A u \in Threads \ {t} : ~InSharedSection(u) /\ ~InExclusiveSection(u)
        /\ (pc[t] \in {"rlock", "rlockAlive"} /\ mutex.writer = NoThread) =>
              ENABLED AccessorStep(t)

\* C4: while SetCiliumEndpointUID holds the exclusive lock no other goroutine is
\* inside a shared or an exclusive section; a reader enters its section whenever
\* no writer holds or waits for the lock, however many readers are inside.
C4_SharedExclusive == C4_State

C4_Witness ==
    \E t, u \in Threads :
        /\ op[t] = "SetCiliumEndpointUID" /\ pc[t] = "write2"
        /\ op[u] = "GetCiliumEndpointUID" /\ pc[u] = "rlock"

C5_State ==
    \A t \in Threads : pc[t] = "locked" => ENABLED AccessorStep(t)

C5_Step ==
    \A t \in Threads :
        (pc[t] = "locked" /\ pc'[t] /= "locked") =>
            /\ mutex' = mutex
            /\ ret'[t].kind = "map"
            /\ pc'[t] = (IF SharedMode(t) THEN "runlock" ELSE "unlock")

\* C5: the call of IdentifiersLocked by a goroutine that holds the lock, shared
\* or exclusive, can always be taken, also while a writer is waiting, and leaves
\* the lock as it was.
C5_IdentifiersLockedNoLocking == []C5_State /\ [][C5_Step]_vars

C5_Witness ==
    \E t, u \in Threads :
        /\ t /= u
        /\ pc[t] = "runlock" /\ ret[t].kind = "map"
        /\ mutex.writer = u /\ ~mutex.locked

C9_State ==
    \A t \in Threads :
        /\ (op[t] = "GetCiliumEndpointUID" /\ ret[t].kind = "uid") =>
              /\ seen[t] >= 1
              /\ \E v \in seen[t]..Len(written) : ret[t].val = [data |-> written[v], len |-> written[v]]
        /\ op[t] \in {"GetCiliumEndpointUID", "SetCiliumEndpointUID"} =>
              /\ ret[t].err = "nil"
              /\ (pc[t] \in {"read", "runlock", "write", "write2", "unlock"}) =>
                    ENABLED AccessorStep(t)
              /\ (pc[t] \in {"rlock", "lock"} /\ mutex.writer = NoThread) =>
                    ENABLED AccessorStep(t)
              /\ (pc[t] = "lockWait" /\ mutex.readerCount = 0) => ENABLED AccessorStep(t)

C9_Step ==
    /\ \A f \in (DOMAIN e) \ {"ciliumEndpointUID"} : e'[f] = e[f]
    /\ IdentifiersLocked(e') = IdentifiersLocked(e)
    /\ e' /= e => \E t \in Threads : op[t] = "SetCiliumEndpointUID" /\ pc[t] \in {"write", "write2"}

\* C9: a completed GetCiliumEndpointUID returns the initial UID or a value given
\* to a setter, never one older than the latest write whose setter had returned
\* when the getter was called; getter and setter never fail and wait only for
\* the lock, alive or not; only the setter changes the endpoint, and only its
\* UID, so the identifiers map stays the same.
C9_AtomicUID == []C9_State /\ [][C9_Step]_vars

C9_Witness ==
    \E t \in Threads :
        /\ Returned(t, "GetCiliumEndpointUID")
        /\ ~alive
        /\ Len(written) = 3 /\ returned = 3 /\ seen[t] = 2
        /\ ret[t].val = [data |-> written[3], len |-> written[3]]

====
